---- MODULE Spec2Model ----
(***************************************************************************)
(* Model of the paragliding flight tools:                                  *)
(*   - convert_igc_to_npz.py : decoding of IGC text records into a track   *)
(*   - compute_polar.py      : projection, smoothing, differentiation and  *)
(*                             outlier filtering of a track (speed polar)  *)
(*   - paragliding_flight_crawler_ffvl.py : the batch loop of the crawler   *)
(*                             and its checkpoints of the flight index      *)
(*                                                                         *)
(* Text lines are sequences of one-character strings, so that slicing,     *)
(* stripping and the fixed-width regular expression are computed as the    *)
(* code computes them.  Floating point numbers are modelled as exact       *)
(* rationals <<n, d>> in lowest terms with d > 0; the results of a float   *)
(* division by zero are <<1, 0>> (inf), <<-1, 0>> (-inf) and <<0, 0>>      *)
(* (nan), as numpy produces them (a warning, no exception).                *)
(***************************************************************************)
EXTENDS Integers, Sequences, FiniteSets, TLC

VARIABLES
    program,     \* which main() runs: "convert_igc_to_npz" or "compute_polar"
    pc,          \* position of main(): the next stage to execute
    err,         \* name of the exception that ended the run, "" if none
    igc_stream,  \* the input text lines (unstripped)
    line_no,     \* number of lines the record generator has consumed
    date,        \* convert_igc_to_array: date, <<>> for None, <<day>> otherwise
    track_list,  \* convert_igc_to_array: track_list
    tlla,        \* the decoded / loaded track: rows <<timestamp, lon, lat, alt, pressure>>
    k,           \* smoothing window handed to smooth()
    args,        \* [start, end]: the optional index restriction, <<>> for None
    tenu0,       \* main: tenu as returned by lla2enu
    tenu1,       \* main: tenu as returned by smooth
    tenu,        \* main: tenu after the start / end restriction
    speeds,      \* compute_polar: speeds as returned by tenu2speeds
    polar,       \* compute_polar: speeds as returned by cleans
    scatter_c,   \* the colour series handed to the renderer with the polar
    site,        \* crawler: what download_flight_info returns for each flight id
    ffvl_flight_id_batch_list,  \* crawler: the batches that chunks() yields
    batch_no,    \* crawler: number of batches the for loop has completed
    flights,     \* crawler main: flights (the keys of the dict)
    flights_batch,  \* crawler main: flights_batch, <<>> while unbound
    output       \* crawler: the rows of the index file, <<>> while it does not exist

\* the variables of the crawler, and those of the track tools
crawl_vars == <<site, ffvl_flight_id_batch_list, batch_no, flights, flights_batch, output>>
track_vars == <<igc_stream, line_no, date, track_list, tlla, k,
                tenu0, tenu1, tenu, speeds, polar, scatter_c>>

vars == <<program, pc, err, igc_stream, line_no, date, track_list, tlla, k, args,
          tenu0, tenu1, tenu, speeds, polar, scatter_c, crawl_vars>>

(***************************************************************************)
(* Bounds of the model.                                                    *)
(***************************************************************************)
MaxLines == 3   \* longest IGC input, in lines
MaxLen == 4     \* longest pre-decoded (.npy) track, in fixes
MaxK == 3       \* largest smoothing window
MaxIds == 4     \* largest number of flight ids in the crawled range
MaxCheckpoint == 3  \* largest checkpoint size (--checkpoint)

None == <<>>
Some(v) == <<v>>

Max(a, b) == IF a >= b THEN a ELSE b
Min(a, b) == IF a <= b THEN a ELSE b
Abs(a) == IF a < 0 THEN -a ELSE a
Sign(a) == IF a < 0 THEN -1 ELSE IF a > 0 THEN 1 ELSE 0

(***************************************************************************)
(* Exact arithmetic standing for float64.                                  *)
(***************************************************************************)
RECURSIVE GCD(_, _)
GCD(a, b) == IF b = 0 THEN a ELSE GCD(b, a % b)

\* n / d in lowest terms; x / 0 is inf, -inf or nan
R(n, d) ==
    IF d = 0 THEN <<Sign(n), 0>>
    ELSE LET g == GCD(Abs(n), Abs(d))
             s == IF d < 0 THEN -1 ELSE 1
         IN <<s * (n \div g), s * (d \div g)>>

I(n) == <<n, 1>>
Zero == <<0, 1>>
IsFinite(x) == x[2] # 0
IsNaN(x) == x = <<0, 0>>

RAdd(x, y) ==
    LET l == (x[2] \div GCD(x[2], y[2])) * y[2]
    IN R(x[1] * (l \div x[2]) + y[1] * (l \div y[2]), l)
RNeg(x) == <<-x[1], x[2]>>
RSub(x, y) == RAdd(x, RNeg(y))
RMul(x, y) ==
    LET g1 == GCD(Abs(x[1]), y[2])
        g2 == GCD(Abs(y[1]), x[2])
    IN R((x[1] \div Max(g1, 1)) * (y[1] \div Max(g2, 1)),
         (x[2] \div Max(g2, 1)) * (y[2] \div Max(g1, 1)))
\* float division: a zero divisor yields inf / nan, never an exception
RDiv(x, y) ==
    IF y[1] = 0 THEN <<Sign(x[1]), 0>>
    ELSE RMul(x, R(y[2], y[1]))
\* float comparison x < y: false as soon as one side is nan
RLt(x, y) ==
    IF IsNaN(x) \/ IsNaN(y) THEN FALSE
    ELSE IF ~IsFinite(x) THEN x[1] < 0 /\ y # x
    ELSE IF ~IsFinite(y) THEN y[1] > 0
    ELSE x[1] * y[2] < y[1] * x[2]
RAbs(x) == <<Abs(x[1]), x[2]>>

(***************************************************************************)
(* Text: a line is a sequence of one-character strings.                    *)
(***************************************************************************)
Digits == {"0", "1", "2", "3", "4", "5", "6", "7", "8", "9"}
Whitespace == {" ", "\n", "\t", "\r"}

DigitVal(c) ==
    CASE c = "0" -> 0 [] c = "1" -> 1 [] c = "2" -> 2 [] c = "3" -> 3 [] c = "4" -> 4
      [] c = "5" -> 5 [] c = "6" -> 6 [] c = "7" -> 7 [] c = "8" -> 8 [] c = "9" -> 9

\* int(s) for a string of decimal digits
RECURSIVE ParseInt(_)
ParseInt(s) ==
    IF s = <<>> THEN 0
    ELSE 10 * ParseInt(SubSeq(s, 1, Len(s) - 1)) + DigitVal(s[Len(s)])

\* s[a:b] and s[a:] of Python, for 0 <= a
Slice(s, a, b) == SubSeq(s, a + 1, Min(b, Len(s)))
SliceFrom(s, a) == SubSeq(s, a + 1, Len(s))

\* str.strip()
RECURSIVE LStrip(_)
LStrip(s) == IF s # <<>> /\ s[1] \in Whitespace THEN LStrip(Tail(s)) ELSE s
RECURSIVE RStrip(_)
RStrip(s) ==
    IF s # <<>> /\ s[Len(s)] \in Whitespace THEN RStrip(SubSeq(s, 1, Len(s) - 1)) ELSE s
Strip(s) == RStrip(LStrip(s))

\* the characters s[a..b] (1-based) all exist and are decimal digits
AllDigits(s, a, b) == b <= Len(s) /\ \A i \in a..b : s[i] \in Digits

\* the first position >= p of s that holds no whitespace (Len(s) + 1 if none)
RECURSIVE SkipSpaces(_, _)
SkipSpaces(s, p) ==
    IF p <= Len(s) /\ s[p] \in Whitespace THEN SkipSpaces(s, p + 1) ELSE p

(***************************************************************************)
(* RECORD_PATTERNS_B.search(record): the match, or matched = FALSE for the *)
(* None that re.search returns.  The pattern is anchored at the start of   *)
(* the record and open at its end.                                         *)
(***************************************************************************)
NoMatch ==
    [matched |-> FALSE, hours |-> <<>>, minutes |-> <<>>, seconds |-> <<>>,
     latitude_deg |-> <<>>, latitude_min |-> <<>>, latitude_dec |-> <<>>, NS |-> "",
     longitude_deg |-> <<>>, longitude_min |-> <<>>, longitude_dec |-> <<>>, EW |-> "",
     fix |-> "", pressure |-> <<>>, altitude |-> <<>>]

\* the match, given the positions p and q where the pressure and the altitude
\* digits start (after the optional whitespace before each)
MatchB(record, p, q) ==
    IF /\ Len(record) >= 25
       /\ record[1] = "B"
       /\ AllDigits(record, 2, 14)
       /\ record[15] \in {"N", "S"}
       /\ AllDigits(record, 16, 23)
       /\ record[24] \in {"E", "W"}
       /\ record[25] \in {"A", "V"}
       /\ AllDigits(record, p, p + 4)
       /\ AllDigits(record, q, q + 4)
    THEN [matched |-> TRUE,
          hours |-> SubSeq(record, 2, 3), minutes |-> SubSeq(record, 4, 5),
          seconds |-> SubSeq(record, 6, 7),
          latitude_deg |-> SubSeq(record, 8, 9), latitude_min |-> SubSeq(record, 10, 11),
          latitude_dec |-> SubSeq(record, 12, 14), NS |-> record[15],
          longitude_deg |-> SubSeq(record, 16, 18),
          longitude_min |-> SubSeq(record, 19, 20),
          longitude_dec |-> SubSeq(record, 21, 23), EW |-> record[24],
          fix |-> record[25],
          pressure |-> SubSeq(record, p, p + 4), altitude |-> SubSeq(record, q, q + 4)]
    ELSE NoMatch
MatchBFrom(record, p) == MatchB(record, p, SkipSpaces(record, p + 5))

RECORD_PATTERNS_B(record) == MatchBFrom(record, SkipSpaces(record, 26))

\* minutes2degrees(deg, min, dec): float(deg) + float(f'{min}.{dec}') / 60
minutes2degrees(deg, min, dec) ==
    LET degrees == I(ParseInt(deg))
        minutes == R(ParseInt(min) * 1000 + ParseInt(dec), 1000)
    IN RAdd(degrees, RDiv(minutes, I(60)))

(***************************************************************************)
(* Dates are day numbers since 1970-01-01; datetime.timestamp() is taken   *)
(* in UTC, so a timestamp is day * 86400 + time of day.                    *)
(***************************************************************************)
IsLeap(y) == (y % 4 = 0 /\ y % 100 # 0) \/ y % 400 = 0
DaysInMonth(y, m) ==
    IF m = 2 THEN (IF IsLeap(y) THEN 29 ELSE 28)
    ELSE IF m \in {4, 6, 9, 11} THEN 30 ELSE 31

DaysFromCivil(y, m, d) ==
    LET yy == IF m <= 2 THEN y - 1 ELSE y
        era == yy \div 400
        yoe == yy - era * 400
        mp == (m + 9) % 12
        doy == (153 * mp + 2) \div 5 + d - 1
        doe == yoe * 365 + yoe \div 4 - yoe \div 100 + doy
    IN era * 146097 + doe - 719468

\* The alternatives of strptime's %d and %m directives that match at the start
\* of s, as the lengths they consume, in the order the regular expression
\* tries them: (3[0-1]|[1-2]\d|0[1-9]|[1-9]| [1-9]) and (1[0-2]|0[1-9]|[1-9]).
NonZeroDigits == Digits \ {"0"}
DayLengths(s) ==
    (IF Len(s) >= 2 /\ (\/ s[1] = "3" /\ s[2] \in {"0", "1"}
                        \/ s[1] \in {"1", "2"} /\ s[2] \in Digits
                        \/ s[1] = "0" /\ s[2] \in NonZeroDigits)
     THEN <<2>> ELSE <<>>)
    \o (IF Len(s) >= 1 /\ s[1] \in NonZeroDigits THEN <<1>> ELSE <<>>)
    \o (IF Len(s) >= 2 /\ s[1] = " " /\ s[2] \in NonZeroDigits THEN <<2>> ELSE <<>>)
MonthLengths(s) ==
    (IF Len(s) >= 2 /\ (\/ s[1] = "1" /\ s[2] \in {"0", "1", "2"}
                        \/ s[1] = "0" /\ s[2] \in NonZeroDigits)
     THEN <<2>> ELSE <<>>)
    \o (IF Len(s) >= 1 /\ s[1] \in NonZeroDigits THEN <<1>> ELSE <<>>)

\* the (day length, month length) pairs that two year digits follow, for the
\* day length ld, in the order the regular expression tries them
SplitsForDay(s, ld, ms) ==
    SelectSeq([i \in 1..Len(ms) |-> <<ld, ms[i]>>],
              LAMBDA pr : AllDigits(s, pr[1] + pr[2] + 1, pr[1] + pr[2] + 2))
SplitsFor(s, ds) ==
    (IF Len(ds) >= 1 THEN SplitsForDay(s, ds[1], MonthLengths(SliceFrom(s, ds[1]))) ELSE <<>>)
    \o (IF Len(ds) >= 2 THEN SplitsForDay(s, ds[2], MonthLengths(SliceFrom(s, ds[2])))
        ELSE <<>>)
StrptimeSplits(s) == SplitsFor(s, DayLengths(s))

\* the date of the fields day, month, two-digit year of a string of length n
\* matched on its first m characters
DateOfFields(d, m, y2, matched, n) ==
    IF matched = n /\ d <= DaysInMonth(IF y2 >= 69 THEN 1900 + y2 ELSE 2000 + y2, m)
    THEN [ok |-> TRUE, day |-> DaysFromCivil(IF y2 >= 69 THEN 1900 + y2 ELSE 2000 + y2, m, d)]
    ELSE [ok |-> FALSE, day |-> 0]
DateOfSplit(date_str, ld, lm) ==
    DateOfFields(ParseInt(LStrip(SubSeq(date_str, 1, ld))),
                 ParseInt(SubSeq(date_str, ld + 1, ld + lm)),
                 ParseInt(SubSeq(date_str, ld + lm + 1, ld + lm + 2)),
                 ld + lm + 2, Len(date_str))
DateOfSplits(date_str, splits) ==
    IF splits = <<>> THEN [ok |-> FALSE, day |-> 0]
    ELSE DateOfSplit(date_str, splits[1][1], splits[1][2])

\* datetime.strptime(date_str, '%d%m%y'): ok = FALSE stands for ValueError (no
\* match, unconverted data remaining, or a day the month does not have)
strptime(date_str) == DateOfSplits(date_str, StrptimeSplits(date_str))

\* the result of decode_record_h from that of strptime
HeaderOf(parsed) ==
    IF parsed.ok
    THEN [raised |-> "", value |-> Some(parsed.day)]
    ELSE [raised |-> "ValueError", value |-> None]

\* decode_record_h: [raised, value]; value is None unless the subtype is FDTE
decode_record_h(data) ==
    IF Slice(data, 1, 5) = <<"F", "D", "T", "E">>
    THEN HeaderOf(strptime(SliceFrom(data, 5)))
    ELSE [raised |-> "", value |-> None]

\* the row of decode_record_b from the groups of the match
TrackPoint(record_dict, day) ==
    <<I(day * 86400 + ParseInt(record_dict.hours) * 3600
            + ParseInt(record_dict.minutes) * 60 + ParseInt(record_dict.seconds)),
      minutes2degrees(record_dict.longitude_deg, record_dict.longitude_min,
                      record_dict.longitude_dec),
      minutes2degrees(record_dict.latitude_deg, record_dict.latitude_min,
                      record_dict.latitude_dec),
      I(ParseInt(record_dict.altitude)),
      I(ParseInt(record_dict.pressure))>>

\* record_dict.groupdict() and what follows it
DecodeMatch(record_dict, day) ==
    IF ~record_dict.matched
    THEN [raised |-> "AttributeError", value |-> <<>>]
    ELSE [raised |-> "", value |-> TrackPoint(record_dict, day)]

\* decode_record_b: [raised, value]; value is the row
\* <<timestamp, longitude, latitude, altitude, pressure>>
decode_record_b(record, day) == DecodeMatch(RECORD_PATTERNS_B(record), day)

RECORD_DECODERS == {"B", "H"}

(***************************************************************************)
(* convert_igc_to_array: one iteration of "for record in records", on a    *)
(* stripped line whose first character is in RECORD_DECODERS.              *)
(***************************************************************************)
\* "if header is not None: date = header"
WithHeader(header, cur_date, cur_track) ==
    [raised |-> header.raised,
     date |-> IF header.raised = "" /\ header.value # None THEN header.value ELSE cur_date,
     track_list |-> cur_track]

\* "track_list.append(track_point)"
WithTrackPoint(track_point, cur_date, cur_track) ==
    [raised |-> track_point.raised,
     date |-> cur_date,
     track_list |-> IF track_point.raised = ""
                    THEN Append(cur_track, track_point.value) ELSE cur_track]

\* "date = header" not guarded by "if header is not None"
WithHeaderUnguarded(header, cur_date, cur_track) ==
    [raised |-> header.raised,
     date |-> IF header.raised = "" THEN header.value ELSE cur_date,
     track_list |-> cur_track]

\* convert_record with the date initialised to the epoch day instead of None,
\* so that the assertion on the date never fires
convert_record_epoch_default(record, cur_date, cur_track) ==
    IF record[1] = "H"
    THEN WithHeader(decode_record_h(record), cur_date, cur_track)
    ELSE WithTrackPoint(decode_record_b(record, IF cur_date = None THEN 0 ELSE cur_date[1]),
                        cur_date, cur_track)

\* convert_record with "date = header" not guarded by "if header is not None"
convert_record_unguarded_date(record, cur_date, cur_track) ==
    IF record[1] = "H"
    THEN WithHeaderUnguarded(decode_record_h(record), cur_date, cur_track)
    ELSE IF cur_date = None
         THEN [raised |-> "AssertionError", date |-> cur_date, track_list |-> cur_track]
         ELSE WithTrackPoint(decode_record_b(record, cur_date[1]), cur_date, cur_track)

convert_record(record, cur_date, cur_track) ==
    IF record[1] = "H"
    THEN WithHeader(decode_record_h(record), cur_date, cur_track)
    ELSE \* record_type == 'B'
         IF cur_date = None
         THEN [raised |-> "AssertionError", date |-> cur_date, track_list |-> cur_track]
         ELSE WithTrackPoint(decode_record_b(record, cur_date[1]), cur_date, cur_track)

(***************************************************************************)
(* compute_polar.py                                                        *)
(***************************************************************************)
\* pymap3d.geodetic2enu(lat, lon, h, lat0, lon0, h0) -> (east, north, up), in its
\* small-displacement form about the origin with unit scale factors: east grows
\* with the longitude argument, north with the latitude argument, up with height.
geodetic2enu(lat, lon, h, lat0, lon0, h0) ==
    <<RSub(lon, lon0), RSub(lat, lat0), RSub(h, h0)>>

\* a row of tenu: the timestamp and the enu triple
TenuRow(timestamp, enu) == <<timestamp, enu[1], enu[2], enu[3]>>

\* pymap3d rejects a latitude argument outside [-90, 90] degrees with ValueError
\* (the check is made on the whole array, point and origin alike)
LatitudeInRange(lat) == ~RLt(lat, I(-90)) /\ ~RLt(I(90), lat)

\* lla2enu(tlla): [raised, value]; rows <<timestamp, east, north, up>>.  The
\* columns 1:4 of tlla are named longitudes, latitudes, altitudes and handed to
\* geodetic2enu in that order, so the longitudes are its latitude argument.
lla2enu(t) ==
    IF Len(t) = 0
    THEN [raised |-> "IndexError", value |-> <<>>]
    ELSE IF \E i \in 1..Len(t) : ~LatitudeInRange(t[i][2])
    THEN [raised |-> "ValueError", value |-> <<>>]
    ELSE [raised |-> "",
          value |-> [i \in 1..Len(t) |->
                        TenuRow(t[i][1], geodetic2enu(t[i][2], t[i][3], t[i][4],
                                                      t[1][2], t[1][3], t[1][4]))]]

RECURSIVE RSum(_, _)
\* sum of f[1..n]
RSum(f, n) == IF n = 0 THEN Zero ELSE RAdd(RSum(f, n - 1), f[n])

\* np.convolve(a, v, mode='valid') for non-empty a and v: the shorter sequence
\* slides over the longer one, whichever argument it is
convolve_valid(a, v) ==
    LET long == IF Len(v) > Len(a) THEN v ELSE a
        short == IF Len(v) > Len(a) THEN a ELSE v
        n == Len(short)
    IN [m \in 1..(Len(long) - n + 1) |->
            RSum([j \in 1..n |-> RMul(short[j], long[m + n - j])], n)]

\* array.transpose() of the four stacked channels
Transposed(chan) ==
    [m \in 1..Len(chan[1]) |-> <<chan[1][m], chan[2][m], chan[3][m], chan[4][m]>>]

\* the four channels of array, each convolved with kernel
SmoothWith(array, kernel) ==
    Transposed([i \in 1..4 |->
                    convolve_valid([r \in 1..Len(array) |-> array[r][i]], kernel)])

\* smooth with the kernel np.ones(k) in place of np.ones(k) / k
smooth_unnormalised(array, kk) ==
    IF Len(array) = 0 \/ kk = 0
    THEN [raised |-> "ValueError", value |-> <<>>]
    ELSE [raised |-> "", value |-> SmoothWith(array, [j \in 1..kk |-> I(1)])]

\* smooth(array, k): [raised, value]
smooth(array, kk) ==
    IF Len(array) = 0 \/ kk = 0
    THEN [raised |-> "ValueError", value |-> <<>>]
    ELSE [raised |-> "", value |-> SmoothWith(array, [j \in 1..kk |-> R(1, kk)])]

\* a[:e] and a[s:] of Python
PyHead(a, e) ==
    IF e >= 0 THEN SubSeq(a, 1, Min(e, Len(a))) ELSE SubSeq(a, 1, Max(Len(a) + e, 0))
PyTail(a, b) ==
    IF b >= 0 THEN SubSeq(a, Min(b, Len(a)) + 1, Len(a))
    ELSE SubSeq(a, Max(Len(a) + b, 0) + 1, Len(a))

\* "if args.end:" / "if args.start:" -- None and 0 are both false
Truthy(opt) == opt # None /\ opt[1] # 0

\* restrict with the two slices applied in the other order: tenu[start:][:end]
restrict_start_first(t, start, end) ==
    LET cut == IF Truthy(start) THEN PyTail(t, start[1]) ELSE t
    IN IF Truthy(end) THEN PyHead(cut, end[1]) ELSE cut

\* main: the start / end restriction of tenu
restrict(t, start, end) ==
    LET cut == IF Truthy(end) THEN PyHead(t, end[1]) ELSE t
    IN IF Truthy(start) THEN PyTail(cut, start[1]) ELSE cut

\* The horizontal speed np.linalg.norm(deltas[1:3]) / deltas[0] is kept exact as
\* the pair [sq, neg]: its square (inf or nan when the divisor is 0) and whether
\* it is negative (a negative divisor).
SpeedH(norm2, dt) ==
    [sq |-> RDiv(norm2, RMul(dt, dt)), neg |-> dt[1] < 0 /\ norm2 # Zero]
speed_h_of(de, dn, dt) == SpeedH(RAdd(RMul(de, de), RMul(dn, dn)), dt)

\* a row of speeds from a row of deltas
SpeedRow(deltas) ==
    <<speed_h_of(deltas[2], deltas[3], deltas[1]), RDiv(deltas[4], deltas[1])>>

\* a row of speeds with the norm taken over deltas[1:2] (east alone)
SpeedRowEastOnly(deltas) ==
    <<speed_h_of(deltas[2], Zero, deltas[1]), RDiv(deltas[4], deltas[1])>>

\* tenu2speeds with the norm taken over deltas[1:2]
tenu2speeds_east_only(t) ==
    [i \in 1..Max(Len(t) - 1, 0) |->
        SpeedRowEastOnly([c \in 1..4 |-> RSub(t[i + 1][c], t[i][c])])]

\* tenu2speeds(tenu): rows <<speed_h, speed_v>>
tenu2speeds(t) ==
    [i \in 1..Max(Len(t) - 1, 0) |-> SpeedRow([c \in 1..4 |-> RSub(t[i + 1][c], t[i][c])])]

SpeedLimitH == 30
SpeedLimitV == 20

\* valid_h with "<=" in place of "<"
valid_h_inclusive(h) ==
    IF IsNaN(h.sq) THEN FALSE
    ELSE IF h.neg THEN TRUE
    ELSE ~RLt(I(SpeedLimitH * SpeedLimitH), h.sq)

\* speeds[0] < 30 on the exact representation of the horizontal speed
valid_h(h) ==
    IF IsNaN(h.sq) THEN FALSE
    ELSE IF h.neg THEN TRUE
    ELSE RLt(h.sq, I(SpeedLimitH * SpeedLimitH))
\* np.abs(speeds[1]) < 20
valid_v(v) == RLt(RAbs(v), I(SpeedLimitV))

\* cleans(speeds)
cleans(sp) == SelectSeq(sp, LAMBDA row : valid_v(row[2]) /\ valid_h(row[1]))

\* compute_polar's callers: c=tenu[0:-1, 0]
scatter_colors(t) == [i \in 1..Max(Len(t) - 1, 0) |-> t[i][1]]

(***************************************************************************)
(* Inputs.                                                                 *)
(***************************************************************************)
DigitChar(n) ==
    CASE n = 0 -> "0" [] n = 1 -> "1" [] n = 2 -> "2" [] n = 3 -> "3" [] n = 4 -> "4"
      [] n = 5 -> "5" [] n = 6 -> "6" [] n = 7 -> "7" [] n = 8 -> "8" [] n = 9 -> "9"
D2(n) == <<DigitChar((n \div 10) % 10), DigitChar(n % 10)>>
D3(n) == <<DigitChar((n \div 100) % 10)>> \o D2(n)
D5(n) == <<DigitChar((n \div 10000) % 10), DigitChar((n \div 1000) % 10)>> \o D3(n)

\* the text of a fix record
BLine(hms, lat, ns, lon, ew, pressure, altitude) ==
    <<"B">> \o D2(hms[1]) \o D2(hms[2]) \o D2(hms[3])
      \o D2(lat[1]) \o D2(lat[2]) \o D3(lat[3]) \o <<ns>>
      \o D3(lon[1]) \o D2(lon[2]) \o D3(lon[3]) \o <<ew>>
      \o <<"A">> \o D5(pressure) \o D5(altitude)

HDate1 == <<"H", "F", "D", "T", "E", "0", "1", "0", "1", "7", "0">>
HDate2 == <<"H", "F", "D", "T", "E", "0", "2", "0", "1", "7", "0", "\n">>
HOther == <<"H", "F", "P", "L", "T", "J", "O">>
HBadDate == <<"H", "F", "D", "T", "E", "D", "A", "T", "E", ":", "0", "1", "0", "1", "7", "0">>
BFix1 == BLine(<<0, 0, 10>>, <<45, 30, 0>>, "N", <<5, 30, 0>>, "E", 100, 120) \o <<"\n">>
BFix2 == <<" ">> \o BLine(<<0, 0, 12>>, <<45, 45, 0>>, "N", <<5, 15, 0>>, "E", 110, 130)
BFix3 == BLine(<<0, 0, 5>>, <<33, 30, 0>>, "S", <<70, 30, 0>>, "W", 90, 100)
BFixLate == BLine(<<23, 59, 58>>, <<45, 30, 0>>, "N", <<5, 30, 0>>, "E", 100, 120)
BTruncated == SubSeq(BFix3, 1, 20)
BNonDigit == [BFix3 EXCEPT ![9] = "x"]
AOther == <<"A", "X", "G", "D">>
EmptyLine == <<"\n">>

LineSet ==
    {HDate1, HDate2, HOther, HBadDate, BFix1, BFix2, BFix3, BFixLate, BTruncated,
     BNonDigit, AOther, EmptyLine}

SeqsUpTo(S, n) == UNION {[1..m -> S] : m \in 0..n}

\* IGC inputs of compute_polar
PolarIgcFiles ==
    {<<HDate1, BFix1, BFix2>>, <<AOther, HOther, HDate1, BFix3, BFix1>>, <<BFix1, HDate1>>,
     <<HDate1, EmptyLine>>, <<HDate1, BTruncated>>, <<HBadDate>>}

\* Pre-decoded tracks: a first fix followed by fixes that differ from their
\* predecessor by a step <<dt, dlon, dlat, dalt>>
Origin == <<I(100), I(5), I(45), I(1000), I(0)>>
Steps ==
    {<<1, 0, 10, 0>>, <<1, 18, 24, 0>>, <<1, 0, 0, -20>>, <<1, 40, 0, 10>>,
     <<0, 0, 0, 0>>, <<-1, 3, 4, 0>>}

RECURSIVE TrackOf(_)
TrackOf(steps) ==
    IF steps = <<>> THEN <<Origin>>
    ELSE LET before == TrackOf(SubSeq(steps, 1, Len(steps) - 1))
             last == before[Len(before)]
             st == steps[Len(steps)]
         IN Append(before, <<RAdd(last[1], I(st[1])), RAdd(last[2], I(st[2])),
                             RAdd(last[3], I(st[3])), RAdd(last[4], I(st[4])), last[5]>>)

NpyTracks == {<<>>} \cup {TrackOf(st) : st \in SeqsUpTo(Steps, MaxLen - 1)}

Optional(S) == {None} \cup {Some(v) : v \in S}
RangeArgs == [start : Optional(0..2), end : Optional(0..2)]

(***************************************************************************)
(* State machine.                                                          *)
(***************************************************************************)
InitCommon ==
    /\ err = ""
    /\ line_no = 0
    /\ date = None
    /\ track_list = <<>>
    /\ k = 0
    /\ args = [start |-> None, end |-> None]
    /\ tenu0 = <<>>
    /\ tenu1 = <<>>
    /\ tenu = <<>>
    /\ speeds = <<>>
    /\ polar = <<>>
    /\ scatter_c = <<>>
    /\ site = <<>>
    /\ ffvl_flight_id_batch_list = <<>>
    /\ batch_no = 0
    /\ flights = {}
    /\ flights_batch = None
    /\ output = None

\* convert_igc_to_npz.main, at "with open(args.input) as igc_stream"
InitConvert ==
    /\ program = "convert_igc_to_npz"
    /\ pc = "convert"
    /\ igc_stream \in SeqsUpTo(LineSet, MaxLines)
    /\ tlla = <<>>
    /\ InitCommon

\* compute_polar.main, after the input was chosen by its extension
InitPolar ==
    /\ program = "compute_polar"
    /\ \/ /\ pc = "project"          \* '.npy': tlla = np.load(args.input)
          /\ igc_stream = <<>>
          /\ tlla \in NpyTracks
       \/ /\ pc = "convert"          \* '.igc': convert_igc_to_array(igc_stream=igc)
          /\ igc_stream \in PolarIgcFiles
          /\ tlla = <<>>
    /\ InitCommon

Fail(e) ==
    /\ pc' = "failed"
    /\ err' = e

NextLine == Strip(igc_stream[line_no + 1])

\* records generator: l[0] of an empty stripped line raises IndexError
ConvertEmptyLine ==
    /\ pc = "convert"
    /\ line_no < Len(igc_stream)
    /\ NextLine = <<>>
    /\ Fail("IndexError")
    /\ UNCHANGED <<crawl_vars, program, igc_stream, line_no, date, track_list, tlla, k, args,
                   tenu0, tenu1, tenu, speeds, polar, scatter_c>>

\* records generator: a line whose first character is no key of RECORD_DECODERS
ConvertSkip ==
    /\ pc = "convert"
    /\ line_no < Len(igc_stream)
    /\ NextLine # <<>>
    /\ NextLine[1] \notin RECORD_DECODERS
    /\ line_no' = line_no + 1
    /\ UNCHANGED <<crawl_vars, program, pc, err, igc_stream, date, track_list, tlla, k, args,
                   tenu0, tenu1, tenu, speeds, polar, scatter_c>>

\* the effect of one loop iteration with result r
ConvertApply(r) ==
    IF r.raised # ""
    THEN /\ Fail(r.raised)
         /\ UNCHANGED <<line_no, date, track_list>>
    ELSE /\ line_no' = line_no + 1
         /\ date' = r.date
         /\ track_list' = r.track_list
         /\ UNCHANGED <<pc, err>>

\* loop body on an 'H' or a 'B' record
ConvertRecord ==
    /\ pc = "convert"
    /\ line_no < Len(igc_stream)
    /\ NextLine # <<>>
    /\ NextLine[1] \in RECORD_DECODERS
    /\ ConvertApply(convert_record(NextLine, date, track_list))
    /\ UNCHANGED <<crawl_vars, program, igc_stream, tlla, k, args,
                   tenu0, tenu1, tenu, speeds, polar, scatter_c>>

\* track = np.array(track_list); return track
ConvertReturn ==
    /\ pc = "convert"
    /\ line_no = Len(igc_stream)
    /\ tlla' = track_list
    /\ pc' = IF program = "convert_igc_to_npz" THEN "save" ELSE "project"
    /\ UNCHANGED <<crawl_vars, program, err, igc_stream, line_no, date, track_list, k, args,
                   tenu0, tenu1, tenu, speeds, polar, scatter_c>>

\* convert_igc_to_npz.main: np.save(fout, track)
SaveNpy ==
    /\ pc = "save"
    /\ pc' = "done"
    /\ UNCHANGED <<crawl_vars, program, err, igc_stream, line_no, date, track_list, tlla, k, args,
                   tenu0, tenu1, tenu, speeds, polar, scatter_c>>

ProjectApply(r) ==
    IF r.raised # ""
    THEN Fail(r.raised) /\ UNCHANGED tenu0
    ELSE pc' = "smooth" /\ tenu0' = r.value /\ UNCHANGED err

\* tenu = lla2enu(tlla)
Project ==
    /\ pc = "project"
    /\ ProjectApply(lla2enu(tlla))
    /\ UNCHANGED <<crawl_vars, program, igc_stream, line_no, date, track_list, tlla, k, args,
                   tenu1, tenu, speeds, polar, scatter_c>>

SmoothApply(r) ==
    IF r.raised # ""
    THEN Fail(r.raised) /\ UNCHANGED tenu1
    ELSE pc' = "restrict" /\ tenu1' = r.value /\ UNCHANGED err

\* tenu = smooth(tenu, k=k)
Smooth ==
    /\ pc = "smooth"
    /\ \E kk \in 1..MaxK :
        /\ k' = kk
        /\ SmoothApply(smooth(tenu0, kk))
    /\ UNCHANGED <<crawl_vars, program, igc_stream, line_no, date, track_list, tlla, args,
                   tenu0, tenu, speeds, polar, scatter_c>>

\* if args.end: tenu = tenu[:args.end]; if args.start: tenu = tenu[args.start:]
Restrict ==
    /\ pc = "restrict"
    /\ \E a \in RangeArgs :
        /\ args' = a
        /\ tenu' = restrict(tenu1, a.start, a.end)
    /\ pc' = "tenu2speeds"
    /\ UNCHANGED <<crawl_vars, program, err, igc_stream, line_no, date, track_list, tlla, k,
                   tenu0, tenu1, speeds, polar, scatter_c>>

\* compute_polar: speeds = tenu2speeds(tenu=tenu)
Differentiate ==
    /\ pc = "tenu2speeds"
    /\ speeds' = tenu2speeds(tenu)
    /\ pc' = "cleans"
    /\ UNCHANGED <<crawl_vars, program, err, igc_stream, line_no, date, track_list, tlla, k, args,
                   tenu0, tenu1, tenu, polar, scatter_c>>

\* compute_polar: speeds = cleans(speeds)
Clean ==
    /\ pc = "cleans"
    /\ polar' = cleans(speeds)
    /\ pc' = "scatter"
    /\ UNCHANGED <<crawl_vars, program, err, igc_stream, line_no, date, track_list, tlla, k, args,
                   tenu0, tenu1, tenu, speeds, scatter_c>>

\* axs[1].scatter(speeds[:, 0], speeds[:, 1], c=tenu[0:-1, 0])
Scatter ==
    /\ pc = "scatter"
    /\ scatter_c' = scatter_colors(tenu)
    /\ pc' = "done"
    /\ UNCHANGED <<crawl_vars, program, err, igc_stream, line_no, date, track_list, tlla, k, args,
                   tenu0, tenu1, tenu, speeds, polar>>

NextConvert ==
    \/ ConvertEmptyLine
    \/ ConvertSkip
    \/ ConvertRecord
    \/ ConvertReturn
    \/ SaveNpy

NextPolar ==
    \/ ConvertEmptyLine
    \/ ConvertSkip
    \/ ConvertRecord
    \/ ConvertReturn
    \/ Project
    \/ Smooth
    \/ Restrict
    \/ Differentiate
    \/ Clean
    \/ Scatter

SpecConvert == InitConvert /\ [][NextConvert]_vars
SpecPolar == InitPolar /\ [][NextPolar]_vars

(***************************************************************************)
(* paragliding_flight_crawler_ffvl.py: main, from the batch list on.  A     *)
(* flight is identified with the id it was requested under, and a dict of   *)
(* flights or the rows of the index file with the set of their ids (the     *)
(* columns of a row are a function of the flight, and no two flights share  *)
(* an igc link, so drop_duplicates removes exactly the repeated ids).       *)
(***************************************************************************)
\* download_flight_info(id): None, a flight whose 'igc' is None, or a flight
\* with an igc link
FlightKinds == {"none", "no_igc", "igc"}

\* chunks(lst, n): successive n-sized chunks of lst
chunks(lst, n) ==
    [b \in 1..((Len(lst) + n - 1) \div n) |->
        SubSeq(lst, (b - 1) * n + 1, Min(b * n, Len(lst)))]

\* range(*args.flight_id)
range(first, stop) == [i \in 1..Max(stop - first, 0) |-> first + i - 1]

\* pool.map, the filter "flight and flight['igc']" and the dict keyed by flight_id
download_batch(pages, flight_id_batch) ==
    {flight_id_batch[i] : i \in {j \in 1..Len(flight_id_batch) :
                                    pages[flight_id_batch[j]] = "igc"}}

\* save_flights(flights, output_filepath): the rows of the file afterwards
save_flights(new_flights, file) ==
    IF file = None THEN Some(new_flights) ELSE Some(file[1] \cup new_flights)

\* "save_flights(flights_batch, args.output)" of the checkpoint
checkpoint(accumulated, batch, file) == save_flights(batch, file)

\* the state after "ffvl_flight_id_batch_list = chunks(...)" and "flights = {}"
InitCrawler ==
    /\ program = "crawler"
    /\ pc = "crawl"
    /\ err = ""
    /\ igc_stream = <<>> /\ line_no = 0 /\ date = None /\ track_list = <<>>
    /\ tlla = <<>> /\ k = 0 /\ tenu0 = <<>> /\ tenu1 = <<>> /\ tenu = <<>>
    /\ speeds = <<>> /\ polar = <<>> /\ scatter_c = <<>>
    /\ \E n \in 0..MaxIds, c \in 1..MaxCheckpoint :
        /\ args = [flight_id |-> <<1, n + 1>>, checkpoint |-> c]
        /\ site \in [1..n -> FlightKinds]
        /\ ffvl_flight_id_batch_list = chunks(range(1, n + 1), c)
    /\ batch_no = 0
    /\ flights = {}
    /\ flights_batch = None
    /\ output \in {None, Some({0})}

\* the effect of the loop body, for the flights of the batch
CrawlApply(batch, accumulated) ==
    /\ flights_batch' = Some(batch)
    /\ IF Cardinality(accumulated) >= args.checkpoint
       THEN /\ output' = checkpoint(accumulated, batch, output)
            /\ flights' = {}
       ELSE /\ flights' = accumulated
            /\ UNCHANGED output

\* one iteration of "for flight_id_batch in tqdm(ffvl_flight_id_batch_list)"
CrawlBatch ==
    /\ pc = "crawl"
    /\ batch_no < Len(ffvl_flight_id_batch_list)
    /\ CrawlApply(download_batch(site, ffvl_flight_id_batch_list[batch_no + 1]),
                  flights \cup download_batch(site, ffvl_flight_id_batch_list[batch_no + 1]))
    /\ batch_no' = batch_no + 1
    /\ UNCHANGED <<track_vars, program, pc, err, args, site, ffvl_flight_id_batch_list>>

\* the loop ends: control reaches the finally clause
CrawlExhausted ==
    /\ pc = "crawl"
    /\ batch_no = Len(ffvl_flight_id_batch_list)
    /\ pc' = "finally"
    /\ UNCHANGED <<track_vars, crawl_vars, program, err, args>>

\* KeyboardInterrupt between two batches: "except KeyboardInterrupt", then finally
CrawlInterrupt ==
    /\ pc = "crawl"
    /\ batch_no < Len(ffvl_flight_id_batch_list)
    /\ pc' = "finally"
    /\ UNCHANGED <<track_vars, crawl_vars, program, err, args>>

\* finally: save_flights(flights_batch, args.output); flights_batch is unbound
\* when no batch was completed (the error is caught and logged by main)
CrawlFinally ==
    /\ pc = "finally"
    /\ IF flights_batch = None
       THEN /\ Fail("UnboundLocalError")
            /\ UNCHANGED output
       ELSE /\ output' = save_flights(flights_batch[1], output)
            /\ pc' = "done"
            /\ UNCHANGED err
    /\ UNCHANGED <<track_vars, program, args, site, ffvl_flight_id_batch_list, batch_no,
                   flights, flights_batch>>

NextCrawler ==
    \/ CrawlBatch
    \/ CrawlExhausted
    \/ CrawlInterrupt
    \/ CrawlFinally

SpecCrawler == InitCrawler /\ [][NextCrawler]_vars

(***************************************************************************)
(* Properties of track assembly (convert_igc_to_array).                    *)
(***************************************************************************)
Stripped(i) == Strip(igc_stream[i])
IsFixLine(i) == Stripped(i) # <<>> /\ Stripped(i)[1] = "B"
IsHeaderLine(i) == Stripped(i) # <<>> /\ Stripped(i)[1] = "H"
IsDateHeader(i) ==
    /\ Len(Stripped(i)) >= 5
    /\ SubSeq(Stripped(i), 1, 5) = <<"H", "F", "D", "T", "E">>
WellFormedFix(i) == IsFixLine(i) /\ RECORD_PATTERNS_B(Stripped(i)).matched
DateSeenBefore(i) == \E j \in 1..(i - 1) : IsDateHeader(j)

\* line i was handed to the loop: it was passed, or the run failed on it
FailedAt(i) == pc = "failed" /\ line_no + 1 = i
Attempted(i) == i <= line_no \/ FailedAt(i)

\* C1: once a fix line that no flight-date header precedes has been handed to
\* the assembly, the run has failed with an error and no track was returned
\* (nor saved), whatever follows that line in the input.
C1_FixBeforeDateFails ==
    \A i \in 1..Len(igc_stream) :
        (Attempted(i) /\ IsFixLine(i) /\ ~DateSeenBefore(i))
            => (pc = "failed" /\ err # "" /\ tlla = <<>>)

\* a fix line without date made the run fail although a date header and a
\* decodable fix follow it
C1_Witness ==
    /\ pc = "failed"
    /\ err = "AssertionError"
    /\ tlla = <<>>
    /\ \E i \in 1..Len(igc_stream) :
        /\ FailedAt(i)
        /\ IsFixLine(i)
        /\ \E j \in (i + 1)..Len(igc_stream) :
            /\ IsDateHeader(j)
            /\ \E m \in (j + 1)..Len(igc_stream) : WellFormedFix(m)

\* C2: a fix line whose fields do not parse is skipped: the run never fails on
\* a malformed fix line that a flight-date header precedes, and the track that
\* is returned holds one fix per well-formed fix line.
C2_MalformedFixSkipped ==
    /\ \A i \in 1..Len(igc_stream) :
        (IsFixLine(i) /\ ~WellFormedFix(i) /\ DateSeenBefore(i)) => ~FailedAt(i)
    /\ pc \in {"save", "done"} =>
        Len(tlla) = Cardinality({i \in 1..Len(igc_stream) : WellFormedFix(i)})

\* the day of the most recent flight-date header before line i
RECURSIVE LastDateBefore(_)
LastDateBefore(i) ==
    IF i <= 1 THEN None
    ELSE IF IsDateHeader(i - 1)
         THEN Some(strptime(SliceFrom(Stripped(i - 1), 5)).day)
         ELSE LastDateBefore(i - 1)

\* the lines among 1..n that are fix lines, in order
FixLinesUpTo(n) == SelectSeq([i \in 1..n |-> i], LAMBDA i : IsFixLine(i))

TimeOfDay(i) ==
    LET l == Stripped(i)
    IN ParseInt(SubSeq(l, 2, 3)) * 3600 + ParseInt(SubSeq(l, 4, 5)) * 60
        + ParseInt(SubSeq(l, 6, 7))

C10_DateOfFixes ==
    LET fixes == FixLinesUpTo(line_no)
    IN /\ Len(track_list) = Len(fixes)
       /\ \A j \in 1..Len(fixes) :
            /\ LastDateBefore(fixes[j]) # None
            /\ track_list[j][1] = I(LastDateBefore(fixes[j])[1] * 86400 + TimeOfDay(fixes[j]))
C10_OtherHeaderNoError ==
    \A i \in 1..Len(igc_stream) : (IsHeaderLine(i) /\ ~IsDateHeader(i)) => ~FailedAt(i)
C10_DateChange ==
    date' # date => (pc = "convert" /\ line_no' = line_no + 1 /\ IsDateHeader(line_no + 1)
                     /\ date' = LastDateBefore(line_no + 2))

\* C10: the date context changes only when a header line of the flight-date
\* subtype is processed (to that header's date); other header lines never make
\* the run fail; every fix in the track carries the date of the most recent
\* flight-date header before its line.
C10_DateContext ==
    /\ [](C10_DateOfFixes /\ C10_OtherHeaderNoError)
    /\ [][C10_DateChange]_vars

\* two flight-date headers, then a fix stamped with the second date
C10_Witness ==
    /\ pc = "convert"
    /\ line_no = 3
    /\ IsDateHeader(1) /\ IsDateHeader(2) /\ WellFormedFix(3)
    /\ LastDateBefore(2) # LastDateBefore(3)
    /\ Len(track_list) = 1
    /\ track_list[1][1] = I(LastDateBefore(3)[1] * 86400 + TimeOfDay(3))

\* line i is of no recognized kind: empty once stripped, or its first character
\* is neither 'H' nor 'B'
Unrecognized(i) == Stripped(i) = <<>> \/ Stripped(i)[1] \notin RECORD_DECODERS

C11_NoFailure == \A i \in 1..Len(igc_stream) : Unrecognized(i) => ~FailedAt(i)
C11_FixCount ==
    pc \in {"save", "done"} =>
        Len(tlla) = Cardinality({i \in 1..Len(igc_stream) : WellFormedFix(i)})
C11_PassedOver ==
    (pc = "convert" /\ line_no < Len(igc_stream) /\ Unrecognized(line_no + 1))
        => (line_no' = line_no + 1 /\ date' = date /\ track_list' = track_list
            /\ pc' = pc /\ err' = err)

\* C11: a line of no recognized kind (first character neither 'H' nor 'B', or
\* empty once stripped) is passed over: the run does not fail on it, and the
\* step that consumes it adds no fix and leaves the date context unchanged; the
\* track that is returned holds one fix per well-formed fix line.
C11_UnrecognizedPassedOver ==
    /\ [](C11_NoFailure /\ C11_FixCount)
    /\ [][C11_PassedOver]_vars

\* deg + min.dec / 60 of the fields of a fix line
Magnitude(deg, min, dec) ==
    R(ParseInt(deg) * 60000 + ParseInt(min) * 1000 + ParseInt(dec), 60000)
Signed(letter, magnitude) ==
    IF letter \in {"S", "W"} THEN RNeg(magnitude) ELSE magnitude

\* C12: every fix of the track has the latitude -(deg + min/60) when its line
\* carries the hemisphere letter 'S' and +(deg + min/60) for 'N', and the
\* longitude -(deg + min/60) for 'W' and +(deg + min/60) for 'E'.
C12_HemisphereSign ==
    LET fixes == FixLinesUpTo(line_no)
    IN \A j \in 1..Min(Len(track_list), Len(fixes)) :
        LET m == RECORD_PATTERNS_B(Stripped(fixes[j]))
        IN /\ track_list[j][3] =
                Signed(m.NS, Magnitude(m.latitude_deg, m.latitude_min, m.latitude_dec))
           /\ track_list[j][2] =
                Signed(m.EW, Magnitude(m.longitude_deg, m.longitude_min, m.longitude_dec))

DateHeadersUpTo(n) == {i \in 1..n : IsDateHeader(i)}

\* C13: in a track assembled under one flight-date header the timestamps never
\* decrease from a fix to the next, and a fix whose time of day is lower than
\* that of the fix before it (the flight passed midnight) is stamped on a later
\* day than the header's.
C13_TimestampsNonDecreasing ==
    LET fixes == FixLinesUpTo(line_no)
    IN (Cardinality(DateHeadersUpTo(line_no)) = 1 /\ Len(track_list) = Len(fixes)) =>
        \A j \in 1..(Len(track_list) - 1) :
            /\ ~RLt(track_list[j + 1][1], track_list[j][1])
            /\ TimeOfDay(fixes[j + 1]) < TimeOfDay(fixes[j]) =>
                ~RLt(track_list[j + 1][1],
                     I((LastDateBefore(fixes[j + 1])[1] + 1) * 86400))

(***************************************************************************)
(* Properties of the polar pipeline (compute_polar.main).                  *)
(***************************************************************************)
\* The variables of a stage are written once, by the action of that stage, so
\* each property is stated where the stage has just returned.
Smoothed == pc = "restrict"
Restricted == pc = "tenu2speeds"
Differentiated == pc = "cleans"
Cleaned == pc = "scatter"

\* sum of channel c over the kk samples of t that start at sample i
RECURSIVE WindowSum(_, _, _, _)
WindowSum(t, c, i, kk) ==
    IF kk = 0 THEN Zero ELSE RAdd(t[i][c], WindowSum(t, c, i + 1, kk - 1))

StageOrder ==
    {<<"convert", "project">>, <<"project", "smooth">>, <<"smooth", "restrict">>,
     <<"restrict", "tenu2speeds">>, <<"tenu2speeds", "cleans">>, <<"cleans", "scatter">>,
     <<"scatter", "done">>}

KeptPositions ==
    {i \in 0..(Len(tenu1) - 1) :
        /\ Truthy(args.end) => i < args.end[1]
        /\ Truthy(args.start) => i >= args.start[1]}
FirstKept == IF Truthy(args.start) THEN args.start[1] ELSE 0

C3_RestrictedAfterSmooth ==
    Restricted =>
        /\ Len(tenu) = Cardinality(KeptPositions)
        /\ \A j \in 1..Len(tenu) :
            /\ tenu[j] = tenu1[FirstKept + j]
            /\ k <= Len(tenu0) =>
                \A c \in 1..4 :
                    RMul(I(k), tenu[j][c]) = WindowSum(tenu0, c, FirstKept + j, k)
C3_Order == pc' # pc => (pc' = "failed" \/ <<pc, pc'>> \in StageOrder)

StrictlyIncreasingTime(t) == \A i \in 1..(Len(t) - 1) : RLt(t[i][1], t[i + 1][1])

\* C4: a track with a time step <= 0 never gets past differentiation (the
\* operation fails), and no speed sample is the result of a division by zero.
C4_NonMonotonicTimeFails ==
    Differentiated =>
        /\ StrictlyIncreasingTime(tenu)
        /\ \A i \in 1..Len(speeds) : IsFinite(speeds[i][1].sq) /\ IsFinite(speeds[i][2])

\* C5: smoothing returns a track only if the window is no longer than its input.
C5_InsufficientSamplesFails ==
    Smoothed => k <= Len(tenu0)

\* the retention rule of the outlier filter: horizontal speed < 30 and
\* -20 < vertical speed < 20
Retained(row) ==
    /\ ~IsNaN(row[1].sq)
    /\ row[1].neg \/ RLt(row[1].sq, I(900))
    /\ RLt(I(-20), row[2])
    /\ RLt(row[2], I(20))
RetainedPositions(sp) == {i \in 1..Len(sp) : Retained(sp[i])}
\* the position in sp of the j-th retained sample
NthRetained(sp, j) ==
    CHOOSE i \in RetainedPositions(sp) :
        Cardinality({m \in RetainedPositions(sp) : m < i}) = j - 1

\* C6: the output of the outlier filter is exactly the subsequence, in order and
\* unmodified, of the samples with horizontal speed < 30 and |vertical speed| < 20.
C6_OutlierFilter ==
    Cleaned =>
        /\ Len(polar) = Cardinality(RetainedPositions(speeds))
        /\ \A j \in 1..Len(polar) : polar[j] = speeds[NthRetained(speeds, j)]

\* samples at exactly 30 m/s and at exactly -20 m/s were dropped, another kept
C6_Witness ==
    /\ Cleaned
    /\ Len(polar) >= 1
    /\ \E i \in 1..Len(speeds) : speeds[i][1] = [sq |-> I(900), neg |-> FALSE]
    /\ \E i \in 1..Len(speeds) : speeds[i][2] = I(-20)
    /\ Len(speeds) = Len(polar) + 2

\* C7: for a window 1 <= k <= n the smoothed track has n - k + 1 samples, each
\* the mean of k consecutive input samples on each of the four channels; k = 1
\* returns the input unchanged.
C7_MovingAverage ==
    (Smoothed /\ k <= Len(tenu0)) =>
        /\ Len(tenu1) = Len(tenu0) - k + 1
        /\ \A i \in 1..Len(tenu1) : \A c \in 1..4 :
                RMul(I(k), tenu1[i][c]) = WindowSum(tenu0, c, i, k)
        /\ k = 1 => tenu1 = tenu0

\* three samples smoothed with window 2 into two samples that differ from the input
C7_Witness ==
    /\ Smoothed
    /\ k = 2
    /\ Len(tenu0) = 3
    /\ Len(tenu1) = 2
    /\ tenu1[1] # tenu0[1]
    /\ tenu1[2][2] # tenu1[1][2]

Delta(t, i, c) == RSub(t[i + 1][c], t[i][c])

\* C8: on a track of n >= 2 samples with strictly increasing time there are n - 1
\* speed samples; sample i has horizontal speed sqrt(de^2 + dn^2) / dt >= 0 and
\* vertical speed du / dt over the pair (i, i + 1); a constant eastward step per
\* constant time step (north and up constant) gives every sample the horizontal
\* speed step / dt.
C8_FiniteDifferences ==
    (Differentiated /\ Len(tenu) >= 2 /\ StrictlyIncreasingTime(tenu)) =>
        /\ Len(speeds) = Len(tenu) - 1
        /\ \A i \in 1..Len(speeds) :
            LET dt == Delta(tenu, i, 1)
                de == Delta(tenu, i, 2)
                dn == Delta(tenu, i, 3)
                du == Delta(tenu, i, 4)
            IN /\ ~speeds[i][1].neg
               /\ RMul(speeds[i][1].sq, RMul(dt, dt)) = RAdd(RMul(de, de), RMul(dn, dn))
               /\ RMul(speeds[i][2], dt) = du
        /\ LET dt == Delta(tenu, 1, 1)
               step == Delta(tenu, 1, 2)
           IN (\A i \in 1..Len(speeds) :
                    /\ Delta(tenu, i, 1) = dt
                    /\ Delta(tenu, i, 2) = step
                    /\ Delta(tenu, i, 3) = Zero
                    /\ Delta(tenu, i, 4) = Zero)
              => \A i \in 1..Len(speeds) :
                    /\ speeds[i][1].sq = RMul(RDiv(step, dt), RDiv(step, dt))
                    /\ speeds[i][2] = Zero
                    /\ speeds[i] = speeds[1]

\* three samples moving east by 10 per second: two samples of 10 m/s
C8_Witness ==
    /\ Differentiated
    /\ Len(tenu) = 3
    /\ \A i \in 1..2 :
        /\ Delta(tenu, i, 1) = I(1)
        /\ Delta(tenu, i, 2) = I(10)
        /\ Delta(tenu, i, 3) = Zero
        /\ Delta(tenu, i, 4) = Zero
    /\ speeds = <<(<<[sq |-> I(100), neg |-> FALSE], Zero>>),
                  (<<[sq |-> I(100), neg |-> FALSE], Zero>>)>>

\* C9: the timestamp series handed to the renderer has the length of the
\* filtered speed series, and its j-th entry is the time of the earlier sample of
\* the pair that produced the j-th retained speed sample.
C9_TimestampsAligned ==
    pc = "done" =>
        /\ Len(scatter_c) = Len(polar)
        /\ \A j \in 1..Len(polar) : scatter_c[j] = tenu[NthRetained(speeds, j)][1]

\* C14: every sample that the outlier filter retains has a horizontal speed >= 0,
\* whatever smoothed track was differentiated.
C14_HorizontalSpeedNonNegative ==
    Cleaned => \A j \in 1..Len(polar) : ~polar[j][1].neg

Projected == pc = "smooth"
Position(row) == <<row[2], row[3], row[4]>>

\* the run failed in the projection of a non-empty track
FailedAtProject == pc = "failed" /\ Len(tlla) >= 1 /\ tenu0 = <<>>

\* C15: every non-empty track is projected: the projection has one sample per
\* fix, sample i carrying the timestamp of fix i and a position that depends on
\* fix i (and the first fix) alone, and its first sample is at (0, 0, 0).
C15_ProjectionShape ==
    /\ ~FailedAtProject
    /\ (Projected /\ Len(tlla) >= 1) =>
        /\ Len(tenu0) = Len(tlla)
        /\ \A i \in 1..Len(tlla) : tenu0[i][1] = tlla[i][1]
        /\ \A i, j \in 1..Len(tlla) :
            (Position(tlla[i]) = Position(tlla[j])) <=> (Position(tenu0[i]) = Position(tenu0[j]))
        /\ Position(tenu0[1]) = <<Zero, Zero, Zero>>

\* C16: each sample is the transform of its fix with the latitude (column 2 of
\* the track) as latitude argument and the longitude (column 1) as longitude
\* argument; so a fix at the latitude and altitude of the first fix is displaced
\* along east alone, and one at its longitude and altitude along north alone.
C16_LatLonOrder ==
    Projected =>
        \A i \in 1..Len(tenu0) :
            /\ Position(tenu0[i]) =
                geodetic2enu(tlla[i][3], tlla[i][2], tlla[i][4],
                             tlla[1][3], tlla[1][2], tlla[1][4])
            /\ (tlla[i][3] = tlla[1][3] /\ tlla[i][4] = tlla[1][4])
                => (tenu0[i][3] = Zero /\ tenu0[i][4] = Zero)
            /\ (tlla[i][2] = tlla[1][2] /\ tlla[i][4] = tlla[1][4])
                => (tenu0[i][2] = Zero /\ tenu0[i][4] = Zero)

(***************************************************************************)
(* Properties of the crawler run.                                          *)
(***************************************************************************)
\* the flights with an igc link that the completed batches returned
Returned ==
    UNION {download_batch(site, ffvl_flight_id_batch_list[b]) : b \in 1..batch_no}
Indexed == IF output = None THEN {} ELSE output[1]

C17_EndOfRun == pc \in {"done", "failed"} => Returned \subseteq Indexed
C17_Reset == (flights # {} /\ flights' = {}) => flights \subseteq Indexed'

\* C17: when the run has ended (normally or after an interruption between two
\* batches) every flight that a completed batch returned with an igc link is in
\* the index file, and a checkpoint that empties the accumulator leaves every
\* flight accumulated before it in the index file.
C17_AllFlightsIndexed ==
    /\ []C17_EndOfRun
    /\ [][C17_Reset]_vars

====
